---- MODULE Spec2Model ----
(***************************************************************************)
(* Model of the price-ratio charting core of pulsechain-analytics:         *)
(*   - getBestPoolWithHistory   (chart-price-ratio/pool-selector.js)       *)
(*   - generateNiceTicks        (pulse-token-ratio.js)                     *)
(*   - resampleToWeekly         (pulse-token-ratio.js)                     *)
(*   - main: history fetch, ratio alignment, output                        *)
(*                                                                         *)
(* Numbers.  JavaScript numbers are modelled as exact decimals.  Liquidity *)
(* and history depth are naturals, so 0.5 * maxHistory and 0.1 * liquidity *)
(* are compared by cross-multiplication.  Tick values are integers counted *)
(* in ulps of 10^unitExp; binary rounding noise is outside the model.      *)
(***************************************************************************)
EXTENDS Integers, Sequences, FiniteSets, TLC

VARIABLES
  \* ---- getBestPoolWithHistory ----
  selPc,          \* "start" | "probing" | "done"
  pools,          \* json.data after the sort (line 40)
  topPools,       \* pools.slice(0, min(5, length))
  probeIdx,       \* position of the for-of loop over topPools
  poolHistories,  \* entries pushed at line 56
  selResult,      \* the returned entry, or NoPool
  selError,       \* "none" | "discovery_failed" | "no_pools" | "no_history"
  fetches,        \* the getClosesGecko calls made so far: <<address, candles>>
  \* ---- generateNiceTicks ----
  tkPc,           \* "start" | "done"
  tkMin,          \* min, in ulps
  tkMax,          \* max, in ulps
  tkCount,        \* tickCount
  unitExp,        \* one ulp is 10^unitExp
  tkResult,       \* the returned array
  tkThrew,        \* whether the call raised an error
  \* ---- resampleToWeekly ----
  rsPc,               \* "start" | "done"
  weeklyResampleDays, \* config.weeklyResampleDays / --weekly-days
  dailyData,          \* the argument: samples [timestamp, close]
  weekly,             \* the returned array
  \* ---- main ----
  mainPc,         \* "start" | "pools" | "done"
  interval,       \* "hourly" | "daily" | "weekly"
  apiKeySet,      \* a DexTools API key is configured
  saveCsv,        \* --csv
  dataA,          \* series of token A: samples [timestamp, close]
  dataB,          \* series of token B
  aligned,        \* the alignment loop (lines 350-365) has run
  ratios,         \* ratio points <<pA, pB>>, the quotient pA / pB
  timestamps,
  rows,           \* CSV rows
  output,         \* what the run has printed or written, in order
  chart,          \* what the chart rendering (lines 375-449) computed
  mainOutcome,    \* "running" | "resolved" | "rejected" (main().catch runs)
  \* ---- getTokenTransferred (Node and Google Apps Script) ----
  xfPc,           \* "start" | "decimals" | "before" | "after" | "done"
  xfReceipt,      \* the answers to the four RPC requests, NoResponse
  xfDecimals,     \*   while not requested
  xfBefore,
  xfAfter,
  xfResult,       \* the returned amount, in units of 10^-7
  xfThrew,        \* the call raised an error instead of returning
  \* ---- the emission loop of generateNiceTicks, in double arithmetic ----
  lpPc,           \* "start" | "loop" | "done"
  lpUlp,          \* spacing of the doubles around min and max
  lpMin,          \* min
  lpMax,          \* max
  lpCount,        \* tickCount
  lpStep,         \* step
  lpVal,          \* val
  lpIter,         \* iterations of the loop so far
  \* ---- formatYRaw ----
  fmPc,           \* "start" | "done"
  fmRange,        \* range = maxRatio - minRatio
  fmValue,        \* the value to format
  fmLabel,        \* the returned string
  \* ---- the two getBestPoolWithHistory calls of main ----
  calls           \* for each token, the locals of its call

poolVars ==
  <<selPc, pools, topPools, probeIdx, poolHistories, selResult, selError, fetches>>

tickVars == <<tkPc, tkMin, tkMax, tkCount, unitExp, tkResult, tkThrew>>

resampleVars == <<rsPc, weeklyResampleDays, dailyData, weekly>>

mainVars ==
  <<mainPc, interval, apiKeySet, saveCsv, dataA, dataB, aligned, ratios,
    timestamps, rows, output, chart, mainOutcome>>

xferVars ==
  <<xfPc, xfReceipt, xfDecimals, xfBefore, xfAfter, xfResult, xfThrew>>

loopVars == <<lpPc, lpUlp, lpMin, lpMax, lpCount, lpStep, lpVal, lpIter>>

formatVars == <<fmPc, fmRange, fmValue, fmLabel>>

pairVars == <<calls>>

extraVars == <<loopVars, formatVars, pairVars>>

vars == <<poolVars, tickVars, resampleVars, mainVars, xferVars, extraVars>>

----------------------------------------------------------------------------
(* Bounds of the model *)

MaxPools == 3
MaxHist == 4

(* reserve_in_usd values the API may report: chosen around the 10% rule *)
LiqChoices == {0, 1, 9, 10, 11, 100}

(* Limit to top 5 to reduce API load *)
TopLimit == 5

(* longer pool lists: number of pools, their liquidities and history depths *)
MaxManyPools == 7
LiqFew == {1, 20}
HistFew == {0, 1, 3}

NoPool == [address |-> 0, liquidity |-> 0, historyDays |-> 0]

(* no chart was rendered: generateNiceTicks not called, no label printed *)
NoChart == [ticksCalls |-> 0, maxLabelLength |-> 0, yLabels |-> <<>>,
            xLabels |-> <<>>]

(* generateNiceTicks inputs: min and max range over -MaxNeg..MaxVal, in     *)
(* thousands of ulps, so that step and range / 1000 are whole ulps.         *)
MaxVal == 45
MaxNeg == 2

(* decimal exponents of the ulp: values that are multiples of 1e-15, and    *)
(* values below that resolution                                             *)
UnitExps == {-15, -18, -20}

(* tickCount = 10 *)
DefaultTickCount == 10
TickCounts == 2..(DefaultTickCount + 1)

(* range / 1000 *)
ClampDivisor == 1000

(* v.toFixed(15) *)
FixedDigits == 15

(* Timestamps are counted in hours: 24 * 60 * 60 * 1000 ms is 24 units.     *)
UnitsPerDay == 24

(* resampleToWeekly inputs *)
MaxSamples == 4
MaxBucketDays == 2
TimeChoices == {0, 23, 24, 25, 48}
CloseChoices == {1, 2}

(* consecutive daily series: number of samples, bucket length in days *)
MaxDays == 21
MaxDailyBucket == 7
DayStarts == {0, 7}

(* main inputs: candles per series, parseFloat(c[4]), DexTools prices *)
MaxLen == 3
CandleCloses == {0, 1, 2}
PriceChoices == {-1, 1, 2}

(* longer series for the chart: number of candles, closes of A and of B *)
MaxRenderLen == 49
RenderCloses == {1, 2, 3}
RenderClosesB == {1, 2}

Min2(a, b) == IF a <= b THEN a ELSE b
Max2(a, b) == IF a >= b THEN a ELSE b

SetMax(S) == CHOOSE x \in S : \A y \in S : y <= x

CeilDiv(a, b) == (a + b - 1) \div b

----------------------------------------------------------------------------
(* pool-selector.js *)

(* Array.prototype.sort is stable: x goes after every element whose         *)
(* liquidity is >= its own.                                                 *)
RECURSIVE InsertDesc(_, _)
InsertDesc(s, x) ==
  IF s = <<>> THEN <<x>>
  ELSE IF Head(s).liquidity >= x.liquidity
       THEN <<Head(s)>> \o InsertDesc(Tail(s), x)
       ELSE <<x>> \o s

RECURSIVE SortByLiquidityDesc(_)
SortByLiquidityDesc(s) ==
  IF s = <<>> THEN <<>>
  ELSE InsertDesc(SortByLiquidityDesc(SubSeq(s, 1, Len(s) - 1)), s[Len(s)])

SliceTopMutant(s) == s

(* line 43 *)
SliceTop(s) == SubSeq(s, 1, Min2(TopLimit, Len(s)))

MaxHistoryOf(ph) == SetMax({ph[i].historyDays : i \in 1..Len(ph)})

TopWinsMutant(top, maxHistory) == 2 * top.historyDays > maxHistory

(* topPool.historyDays >= 0.5 * maxHistory *)
TopWins(top, maxHistory) == 2 * top.historyDays >= maxHistory

IsGoodAlternativeMutant(p, maxHistory, topLiquidity) ==
  /\ p.historyDays = maxHistory
  /\ 10 * p.liquidity > topLiquidity

(* p.historyDays === maxHistory && p.liquidity >= 0.1 * topLiquidity *)
IsGoodAlternative(p, maxHistory, topLiquidity) ==
  /\ p.historyDays = maxHistory
  /\ 10 * p.liquidity >= topLiquidity

GoodAlternatives(ph) ==
  LET maxHistory == MaxHistoryOf(ph)
      topLiquidity == ph[1].liquidity
  IN  SelectSeq(ph, LAMBDA p : IsGoodAlternative(p, maxHistory, topLiquidity))

SelectPoolMutant(ph) ==
  ph[CHOOSE i \in 1..Len(ph) : ph[i].historyDays = MaxHistoryOf(ph)]

(* lines 65-92: the choice among the probed entries (ph is non-empty) *)
SelectPool(ph) ==
  LET maxHistory == MaxHistoryOf(ph)
      topPool == ph[1]
      goodAlternatives == GoodAlternatives(ph)
  IN  IF TopWins(topPool, maxHistory) THEN topPool
      ELSE IF Len(goodAlternatives) > 0
           THEN SortByLiquidityDesc(goodAlternatives)[1]
           ELSE topPool

SelectionOutcomeMutant(ph) ==
  IF Len(ph) = 0
  THEN [error |-> "none", result |-> NoPool]
  ELSE [error |-> "none", result |-> SelectPool(ph)]

(* lines 63-93: throw when nothing was probed successfully, else select *)
SelectionOutcome(ph) ==
  IF Len(ph) = 0
  THEN [error |-> "no_history", result |-> NoPool]
  ELSE [error |-> "none", result |-> SelectPool(ph)]

IdlePool ==
  /\ selPc = "idle"
  /\ fetches = <<>>
  /\ pools = <<>>
  /\ topPools = <<>>
  /\ probeIdx = 0
  /\ poolHistories = <<>>
  /\ selResult = NoPool
  /\ selError = "none"

IdleTicks ==
  /\ tkPc = "idle"
  /\ tkMin = 0
  /\ tkMax = 0
  /\ tkCount = DefaultTickCount
  /\ unitExp = -FixedDigits
  /\ tkResult = <<>>
  /\ tkThrew = FALSE

IdleResample ==
  /\ rsPc = "idle"
  /\ weeklyResampleDays = 1
  /\ dailyData = <<>>
  /\ weekly = <<>>

IdleMain ==
  /\ mainPc = "idle"
  /\ interval = "weekly"
  /\ apiKeySet = FALSE
  /\ saveCsv = FALSE
  /\ dataA = <<>>
  /\ dataB = <<>>
  /\ aligned = FALSE
  /\ ratios = <<>>
  /\ timestamps = <<>>
  /\ rows = <<>>
  /\ output = <<>>
  /\ chart = NoChart
  /\ mainOutcome = "running"

(* an RPC request not made *)
NoResponse == [kind |-> "none", value |-> 0]

IdleXfer ==
  /\ xfPc = "idle"
  /\ xfReceipt = NoResponse
  /\ xfDecimals = NoResponse
  /\ xfBefore = NoResponse
  /\ xfAfter = NoResponse
  /\ xfResult = 0
  /\ xfThrew = FALSE

Tokens == {"A", "B"}

IdleLoop ==
  /\ lpPc = "idle"
  /\ lpUlp = 1
  /\ lpMin = 0
  /\ lpMax = 0
  /\ lpCount = DefaultTickCount
  /\ lpStep = 0
  /\ lpVal = 0
  /\ lpIter = 0

IdleFormat ==
  /\ fmPc = "idle"
  /\ fmRange = 0
  /\ fmValue = 0
  /\ fmLabel = <<>>

(* the locals of a getBestPoolWithHistory call that has not started *)
NoCall == [pc |-> "idle", topPools |-> <<>>, probeIdx |-> 0,
           fetches |-> <<>>, poolHistories |-> <<>>,
           result |-> NoPool, error |-> "none"]

IdlePair ==
  calls = [t \in Tokens |-> NoCall]

IdleExtra == IdleLoop /\ IdleFormat /\ IdlePair

InitPool ==
  /\ IdleExtra
  /\ IdleXfer
  /\ IdleMain
  /\ IdleTicks
  /\ IdleResample
  /\ selPc = "start"
  /\ fetches = <<>>
  /\ pools = <<>>
  /\ topPools = <<>>
  /\ probeIdx = 0
  /\ poolHistories = <<>>
  /\ selResult = NoPool
  /\ selError = "none"

(* line 34: !res.ok *)
DiscoverFails ==
  /\ selPc = "start"
  /\ selPc' = "done"
  /\ selError' = "discovery_failed"
  /\ UNCHANGED <<pools, topPools, probeIdx, poolHistories, selResult, fetches>>
  /\ UNCHANGED <<tickVars, resampleVars, mainVars, xferVars, extraVars>>

(* lines 35-43: a list of n pools with the liquidities liq arrives, is      *)
(* sorted and cut to the top 5                                              *)
DiscoverList(n, liq) ==
  LET data == [i \in 1..n |-> [address |-> i, liquidity |-> liq[i]]]
      sorted == SortByLiquidityDesc(data)
  IN  /\ pools' = sorted
      /\ IF n = 0
         THEN /\ selPc' = "done"
              /\ selError' = "no_pools"
              /\ UNCHANGED <<topPools, probeIdx>>
         ELSE /\ selPc' = "probing"
              /\ selError' = "none"
              /\ topPools' = SliceTop(sorted)
              /\ probeIdx' = 1
      /\ UNCHANGED <<poolHistories, selResult, fetches>>

Discover ==
  /\ selPc = "start"
  /\ \E n \in 0..MaxPools : \E liq \in [1..n -> LiqChoices] :
       DiscoverList(n, liq)
  /\ UNCHANGED <<tickVars, resampleVars, mainVars, xferVars, extraVars>>

(* a longer pool list *)
DiscoverMany ==
  /\ selPc = "start"
  /\ \E n \in 0..MaxManyPools : \E liq \in [1..n -> LiqFew] :
       DiscoverList(n, liq)
  /\ UNCHANGED <<tickVars, resampleVars, mainVars, xferVars, extraVars>>

AfterProbeMutant(ph, entry) == Append(ph, entry)

(* lines 46-60: the entry is pushed at line 56, unless getClosesGecko threw *)
(* (HTTP error or empty ohlcv_list; historyDays = 0 stands for the throw)   *)
AfterProbe(ph, entry) ==
  IF entry.historyDays = 0 THEN ph ELSE Append(ph, entry)

(* lines 46-93: one getClosesGecko answer for topPools[probeIdx]; h = 0 is *)
(* a throw (HTTP error or empty ohlcv_list), h > 0 the number of candles.  *)
(* After the last candidate the function finishes synchronously.           *)
ProbeAnswer(h) ==
  LET pool == topPools[probeIdx]
      entry == [address |-> pool.address, liquidity |-> pool.liquidity,
                historyDays |-> h]
      ph == AfterProbe(poolHistories, entry)
  IN  /\ poolHistories' = ph
      /\ fetches' = Append(fetches, <<pool.address, h>>)
      /\ probeIdx' = probeIdx + 1
      /\ IF probeIdx < Len(topPools)
         THEN UNCHANGED <<selPc, selResult, selError>>
         ELSE /\ selPc' = "done"
              /\ selResult' = SelectionOutcome(ph).result
              /\ selError' = SelectionOutcome(ph).error
      /\ UNCHANGED <<pools, topPools>>

Probe ==
  /\ selPc = "probing"
  /\ \E h \in 0..MaxHist : ProbeAnswer(h)
  /\ UNCHANGED <<tickVars, resampleVars, mainVars, xferVars, extraVars>>

ProbeFew ==
  /\ selPc = "probing"
  /\ \E h \in HistFew : ProbeAnswer(h)
  /\ UNCHANGED <<tickVars, resampleVars, mainVars, xferVars, extraVars>>

NextPool == DiscoverFails \/ Discover \/ Probe

SpecPool == InitPool /\ [][NextPool]_vars

(* selections among more pools than the limit of line 43 *)
NextPoolMany == DiscoverFails \/ DiscoverMany \/ ProbeFew

SpecPoolMany == InitPool /\ [][NextPoolMany]_vars

----------------------------------------------------------------------------
(* Claims about pool selection (checked under SpecPool) *)

Returned == selPc = "done" /\ selError = "none"

(* C1: top-wins rule.  Whenever a selection has returned and the first      *)
(* (most liquid) successfully probed candidate has a history depth of at    *)
(* least half the greatest probed depth, the returned pool is that first    *)
(* candidate, and no probed candidate is more liquid than it, whatever the  *)
(* other candidates' liquidity and history are.                             *)
C1_TopWins ==
  (Returned /\ 2 * poolHistories[1].historyDays >= MaxHistoryOf(poolHistories))
    => /\ selResult = poolHistories[1]
       /\ \A i \in 1..Len(poolHistories) :
            poolHistories[i].liquidity <= selResult.liquidity

(* the top won although a deeper, sufficiently liquid alternative existed *)
C1_Witness ==
  /\ Returned
  /\ 2 * poolHistories[1].historyDays >= MaxHistoryOf(poolHistories)
  /\ selResult = poolHistories[1]
  /\ \E i \in 2..Len(poolHistories) :
       /\ poolHistories[i].historyDays > poolHistories[1].historyDays
       /\ poolHistories[i].historyDays = MaxHistoryOf(poolHistories)
       /\ 10 * poolHistories[i].liquidity >= poolHistories[1].liquidity

DeepAlternatives ==
  {i \in 1..Len(poolHistories) :
     /\ poolHistories[i].historyDays = MaxHistoryOf(poolHistories)
     /\ 10 * poolHistories[i].liquidity >= poolHistories[1].liquidity}

(* C2: switch-or-fall-back rule.  When the top candidate's history depth is *)
(* below half the greatest depth, the returned pool is the most liquid of   *)
(* the candidates with the greatest depth and at least 10% of the top's     *)
(* liquidity if there is one, and the top candidate otherwise; the returned *)
(* pool never has less than 10% of the top's liquidity.                     *)
C2_SwitchOrFallBack ==
  Returned =>
    /\ 10 * selResult.liquidity >= poolHistories[1].liquidity
    /\ (2 * poolHistories[1].historyDays < MaxHistoryOf(poolHistories)) =>
          IF DeepAlternatives # {}
          THEN /\ \E i \in DeepAlternatives : selResult = poolHistories[i]
               /\ \A i \in DeepAlternatives :
                    poolHistories[i].liquidity <= selResult.liquidity
          ELSE selResult = poolHistories[1]

(* a switch happened while another deepest candidate was below the 10% bar *)
C2_Witness ==
  /\ Returned
  /\ 2 * poolHistories[1].historyDays < MaxHistoryOf(poolHistories)
  /\ selResult # poolHistories[1]
  /\ \E i \in 1..Len(poolHistories) :
       /\ poolHistories[i].historyDays = MaxHistoryOf(poolHistories)
       /\ 10 * poolHistories[i].liquidity < poolHistories[1].liquidity

AllProbesFailed ==
  /\ Len(fetches) = Len(topPools)
  /\ \A k \in 1..Len(fetches) : fetches[k][2] = 0

(* C3: a selection whose pool list was discovered ends in an error, with no *)
(* pool returned, exactly when the list is empty or the history fetch of    *)
(* every truncated candidate failed; otherwise it returns exactly one pool, *)
(* one of the probed candidates.                                            *)
C3_NoUsableCandidates ==
  (selPc = "done" /\ selError # "discovery_failed") =>
    IF Len(pools) = 0 \/ AllProbesFailed
    THEN /\ selError = (IF Len(pools) = 0 THEN "no_pools" ELSE "no_history")
         /\ selResult = NoPool
    ELSE /\ selError = "none"
         /\ \E i \in 1..Len(poolHistories) : selResult = poolHistories[i]
         /\ \E k \in 1..Len(fetches) :
              /\ fetches[k][1] = selResult.address
              /\ fetches[k][2] = selResult.historyDays
              /\ fetches[k][2] > 0

(* several candidates were probed and every probe failed *)
C3_Witness ==
  /\ selPc = "done"
  /\ Len(topPools) >= 2
  /\ AllProbesFailed
  /\ selError = "no_history"
  /\ selResult = NoPool

----------------------------------------------------------------------------
(* generateNiceTicks *)

Abs(x) == IF x < 0 THEN -x ELSE x

RECURSIVE Pow10(_)
Pow10(n) == IF n <= 0 THEN 1 ELSE 10 * Pow10(n - 1)

(* Math.pow(10, Math.floor(Math.log10(num / den))) for num / den >= 1:      *)
(* the greatest power of ten p with p * den <= num                          *)
RECURSIVE FloorPow10(_, _, _)
FloorPow10(num, den, p) ==
  IF 10 * p * den <= num THEN FloorPow10(num, den, 10 * p) ELSE p

LadderStepMutant(range, tickCount) == FloorPow10(range, tickCount - 1, 1)

(* lines 261-263: the 1-2-5 ladder; roughStep = range / (tickCount - 1) *)
LadderStep(range, tickCount) ==
  LET p == FloorPow10(range, tickCount - 1, 1)
  IN  IF range > 5 * p * (tickCount - 1) THEN 5 * p
      ELSE IF range > 2 * p * (tickCount - 1) THEN 2 * p
      ELSE p

(* line 265: step = Math.max(step, range / 1000) *)
ClampStep(step, range) ==
  IF ClampDivisor * step >= range THEN step ELSE range \div ClampDivisor

NiceStep(range, tickCount) == ClampStep(LadderStep(range, tickCount), range)

(* lines 267-268 *)
StartOf(min, step) ==
  LET start == (min \div step) * step
  IN  IF start < min THEN start + step ELSE start

(* lines 270-275: for (val = start; val <= max + step / 2; val += step) *)
RECURSIVE EmitTicks(_, _, _, _)
EmitTicks(val, min, max, step) ==
  IF 2 * val <= 2 * max + step
  THEN (IF 10 * val >= 10 * min - step THEN <<val>> ELSE <<>>)
         \o EmitTicks(val + step, min, max, step)
  ELSE <<>>

(* lines 277-279: ticks.unshift(min) *)
ForceMin(ticks, min, step) ==
  IF Len(ticks) > 0 /\ 10 * Abs(ticks[1] - min) > step
  THEN <<min>> \o ticks ELSE ticks

(* lines 280-282: ticks.push(max) *)
ForceMax(ticks, max, step) ==
  IF Len(ticks) > 0 /\ 10 * Abs(ticks[Len(ticks)] - max) > step
  THEN Append(ticks, max) ELSE ticks

(* the ticks array before line 284 *)
RawTicks(min, max, tickCount) ==
  LET step == NiceStep(max - min, tickCount)
      grid == EmitTicks(StartOf(min, step), min, max, step)
  IN  ForceMax(ForceMin(grid, min, step), max, step)

(* Number(v.toFixed(15)): the nearest multiple of 10^-15, ties away from    *)
(* zero; v is in ulps of 10^ue                                              *)
ToFixedNumber(v, ue) ==
  IF ue >= -FixedDigits THEN v
  ELSE LET q == Pow10(-FixedDigits - ue)
           n == (2 * Abs(v) + q) \div (2 * q)
       IN  IF v < 0 THEN -(n * q) ELSE n * q

MapToFixed(ticks, ue) == [i \in 1..Len(ticks) |-> ToFixedNumber(ticks[i], ue)]

(* [...new Set(a)]: first occurrences, in insertion order *)
RECURSIVE Unique(_)
Unique(a) ==
  IF a = <<>> THEN <<>>
  ELSE LET init == SubSeq(a, 1, Len(a) - 1)
           x == a[Len(a)]
       IN  IF \E i \in 1..Len(init) : init[i] = x
           THEN Unique(init) ELSE Append(Unique(init), x)

RECURSIVE InsertAsc(_, _)
InsertAsc(s, x) ==
  IF s = <<>> THEN <<x>>
  ELSE IF Head(s) <= x THEN <<Head(s)>> \o InsertAsc(Tail(s), x)
       ELSE <<x>> \o s

(* uniqueTicks.sort((a, b) => a - b) *)
RECURSIVE SortAsc(_)
SortAsc(a) ==
  IF a = <<>> THEN <<>>
  ELSE InsertAsc(SortAsc(SubSeq(a, 1, Len(a) - 1)), a[Len(a)])

UniqueSortedMutant(ticks, ue) == Unique(MapToFixed(ticks, ue))

(* lines 284-285 *)
UniqueSorted(ticks, ue) == SortAsc(Unique(MapToFixed(ticks, ue)))

(* lines 251-288.  For min > max the range is negative, Math.log10 yields   *)
(* NaN, step and start are NaN, every comparison with NaN is false: the     *)
(* loop body never runs, nothing is force-included, the array stays empty.  *)
GenerateNiceTicks(min, max, tickCount, ue) ==
  IF min = max THEN <<min>>
  ELSE IF min > max THEN <<>>
  ELSE UniqueSorted(RawTicks(min, max, tickCount), ue)

TicksOutcomeMutant(min, max, tickCount, ue) ==
  [threw |-> min > max, ticks |-> GenerateNiceTicks(min, max, tickCount, ue)]

(* the function has no throw statement and calls nothing that raises *)
TicksOutcome(min, max, tickCount, ue) ==
  [threw |-> FALSE, ticks |-> GenerateNiceTicks(min, max, tickCount, ue)]

InitTicks ==
  /\ IdleExtra
  /\ IdlePool
  /\ IdleXfer
  /\ IdleMain
  /\ IdleResample
  /\ tkPc = "start"
  /\ tkMin \in {ClampDivisor * a : a \in (-MaxNeg)..MaxVal}
  /\ tkMax \in {ClampDivisor * a : a \in (-MaxNeg)..MaxVal}
  /\ tkCount \in TickCounts
  /\ unitExp \in UnitExps
  /\ tkResult = <<>>
  /\ tkThrew = FALSE

CallGenerateNiceTicks ==
  /\ tkPc = "start"
  /\ tkPc' = "done"
  /\ tkResult' = TicksOutcome(tkMin, tkMax, tkCount, unitExp).ticks
  /\ tkThrew' = TicksOutcome(tkMin, tkMax, tkCount, unitExp).threw
  /\ UNCHANGED <<tkMin, tkMax, tkCount, unitExp>>
  /\ UNCHANGED <<poolVars, resampleVars, mainVars, xferVars, extraVars>>

NextTicks == CallGenerateNiceTicks

SpecTicks == InitTicks /\ [][NextTicks]_vars

----------------------------------------------------------------------------
(* Claims about generateNiceTicks (checked under SpecTicks) *)

TicksReturned == tkPc = "done" /\ ~tkThrew

IsAscendingRun(a) == \A i \in 1..(Len(a) - 1) : a[i] < a[i + 1]

(* C4: for every min <= max and tickCount the returned sequence is strictly *)
(* ascending, hence sorted with pairwise distinct values.                   *)
C4_StrictlyAscending ==
  (TicksReturned /\ tkMin <= tkMax) => IsAscendingRun(tkResult)

(* the array before line 284 was out of order (max pushed after a grid tick *)
(* above it) and several ticks are returned                                 *)
C4_Witness ==
  /\ TicksReturned
  /\ tkMin < tkMax
  /\ ~IsAscendingRun(RawTicks(tkMin, tkMax, tkCount))
  /\ Len(tkResult) >= 3

(* C5 as stated: the returned sequence has at most tickCount + 2 elements.  *)
C5_Original ==
  (TicksReturned /\ tkMin <= tkMax) => Len(tkResult) <= tkCount + 2

(* C5 as amended: the returned sequence has at most                         *)
(* floor(5 * (tickCount - 1) / 2) + 3 elements (25 for tickCount = 10):     *)
(* the ladder picks a step of at least roughStep / 2.5.                     *)
C5_LengthBound ==
  (TicksReturned /\ tkMin <= tkMax) =>
    Len(tkResult) <= ((5 * (tkCount - 1)) \div 2) + 3

(* the default tickCount yields more than tickCount + 2 ticks *)
C5_Witness ==
  /\ TicksReturned
  /\ tkMin < tkMax
  /\ tkCount = DefaultTickCount
  /\ Len(tkResult) > tkCount + 2

(* C6: for min < max the returned ticks cover the range: the first tick is  *)
(* <= min or within step / 10 of it, and the last tick is >= max or within  *)
(* step / 10 of it.                                                         *)
C6_CoversRange ==
  (TicksReturned /\ tkMin < tkMax) =>
    LET step == NiceStep(tkMax - tkMin, tkCount)
        first == tkResult[1]
        last == tkResult[Len(tkResult)]
    IN  /\ Len(tkResult) > 0
        /\ (first <= tkMin \/ 10 * Abs(first - tkMin) <= step)
        /\ (last >= tkMax \/ 10 * Abs(last - tkMax) <= step)

(* C7 as stated: a call with min > max raises an error. *)
C7_Original == (tkPc = "done" /\ tkMin > tkMax) => tkThrew

(* C7 as amended: a call with min > max raises no error and returns the     *)
(* empty sequence.                                                          *)
C7_ReturnsEmpty ==
  (tkPc = "done" /\ tkMin > tkMax) => (~tkThrew /\ tkResult = <<>>)

(* a call with min > max has returned *)
C7_Witness ==
  /\ tkPc = "done"
  /\ tkMin > tkMax
  /\ tkMin > 0
  /\ tkResult = <<>>

----------------------------------------------------------------------------
(* resampleToWeekly *)

SeqsUpTo(S, n) == UNION {[1..k -> S] : k \in 0..n}

Samples(T, C) == {[timestamp |-> t, close |-> c] : t \in T, c \in C}

CrossesMutant(d, weekStart, days) == d.timestamp - weekStart > days * UnitsPerDay

(* line 234: d.timestamp - weekStart >= weeklyResampleDays * 24*60*60*1000 *)
Crosses(d, weekStart, days) == d.timestamp - weekStart >= days * UnitsPerDay

(* without the weekClose = d.close of line 238 *)
RECURSIVE ResampleFromMutant(_, _, _, _, _)
ResampleFromMutant(data, i, weekStart, weekClose, days) ==
  IF i > Len(data)
  THEN <<[timestamp |-> weekStart, close |-> weekClose]>>
  ELSE IF Crosses(data[i], weekStart, days)
       THEN <<[timestamp |-> weekStart, close |-> weekClose]>>
              \o ResampleFromMutant(data, i + 1, data[i].timestamp,
                                    data[i].close, days)
       ELSE ResampleFromMutant(data, i + 1, weekStart, weekClose, days)

(* lines 233-240: the loop from sample i on, and the final push *)
RECURSIVE ResampleFrom(_, _, _, _, _)
ResampleFrom(data, i, weekStart, weekClose, days) ==
  IF i > Len(data)
  THEN <<[timestamp |-> weekStart, close |-> weekClose]>>
  ELSE IF Crosses(data[i], weekStart, days)
       THEN <<[timestamp |-> weekStart, close |-> weekClose]>>
              \o ResampleFrom(data, i + 1, data[i].timestamp, data[i].close, days)
       ELSE ResampleFrom(data, i + 1, weekStart, data[i].close, days)

(* without the push of line 240 *)
ResampleToWeeklyMutant(data, days) ==
  IF Len(data) = 0 THEN <<>>
  ELSE LET w == ResampleFrom(data, 2, data[1].timestamp, data[1].close, days)
       IN  SubSeq(w, 1, Len(w) - 1)

(* lines 228-242 *)
ResampleToWeekly(data, days) ==
  IF Len(data) = 0 THEN <<>>
  ELSE ResampleFrom(data, 2, data[1].timestamp, data[1].close, days)

InitResample ==
  /\ IdleExtra
  /\ IdlePool
  /\ IdleXfer
  /\ IdleMain
  /\ IdleTicks
  /\ rsPc = "start"
  /\ weeklyResampleDays \in 1..MaxBucketDays
  /\ dailyData \in SeqsUpTo(Samples(TimeChoices, CloseChoices), MaxSamples)
  /\ weekly = <<>>

CallResampleToWeekly ==
  /\ rsPc = "start"
  /\ rsPc' = "done"
  /\ weekly' = ResampleToWeekly(dailyData, weeklyResampleDays)
  /\ UNCHANGED <<weeklyResampleDays, dailyData>>
  /\ UNCHANGED <<poolVars, tickVars, mainVars, xferVars, extraVars>>

NextResample == CallResampleToWeekly

SpecResample == InitResample /\ [][NextResample]_vars

(* n daily candles as getClosesGecko maps them (line 198), one per day from *)
(* hour `start` on; the close of candle i is i                              *)
DailySeries(n, start) ==
  [i \in 1..n |-> [timestamp |-> start + (i - 1) * UnitsPerDay, close |-> i]]

(* resampleToWeekly called on consecutive daily samples *)
InitDaily ==
  /\ IdleExtra
  /\ IdlePool
  /\ IdleXfer
  /\ IdleMain
  /\ IdleTicks
  /\ rsPc = "start"
  /\ weeklyResampleDays \in 1..MaxDailyBucket
  /\ dailyData \in {DailySeries(n, s) : n \in 0..MaxDays, s \in DayStarts}
  /\ weekly = <<>>

SpecDaily == InitDaily /\ [][NextResample]_vars

----------------------------------------------------------------------------
(* Claims about resampleToWeekly (checked under SpecResample) *)

(* the bucket starts S of dailyData: sample 1, and every later sample whose *)
(* distance to the latest start before it reaches the bucket length         *)
LatestStartBefore(S, j) == SetMax({s \in S : s < j})

IsBucketStarts(S) ==
  /\ 1 \in S
  /\ \A j \in 2..Len(dailyData) :
       j \in S <=>
         dailyData[j].timestamp - dailyData[LatestStartBefore(S, j)].timestamp
           >= weeklyResampleDays * UnitsPerDay

(* the last sample of the bucket that starts at s *)
BucketEnd(S, s) ==
  IF \E t \in S : t > s
  THEN (CHOOSE t \in S : t > s /\ \A u \in S : u > s => t <= u) - 1
  ELSE Len(dailyData)

(* C10: the first bucket starts at the first sample's timestamp; a new      *)
(* bucket starts at sample d exactly when d.timestamp minus the current     *)
(* bucket's start is >= bucketDays days; the k-th emitted bucket carries    *)
(* the k-th start's timestamp and the close of the last sample before the   *)
(* next start (for the final bucket, of the last sample of the input).      *)
C10_Buckets ==
  (rsPc = "done" /\ Len(dailyData) > 0) =>
    \E S \in SUBSET (1..Len(dailyData)) :
      /\ IsBucketStarts(S)
      /\ Len(weekly) = Cardinality(S)
      /\ \A s \in S :
           LET k == Cardinality({t \in S : t <= s})
           IN  /\ weekly[k].timestamp = dailyData[s].timestamp
               /\ weekly[k].close = dailyData[BucketEnd(S, s)].close

(* a sample exactly one bucket length after the start opened a new bucket,  *)
(* and the first bucket closed with the close of a later sample than its    *)
(* first one                                                                *)
C10_Witness ==
  /\ rsPc = "done"
  /\ Len(dailyData) >= 4
  /\ Len(weekly) = 2
  /\ weekly[2].timestamp - weekly[1].timestamp = weeklyResampleDays * UnitsPerDay
  /\ weekly[1].close = dailyData[2].close
  /\ dailyData[1].close # dailyData[2].close
  /\ dailyData[3].close # dailyData[2].close
  /\ weekly[2].timestamp = dailyData[3].timestamp

----------------------------------------------------------------------------
(* Claims about resampleToWeekly on daily series (checked under SpecDaily) *)

IsConsecutiveDaily(data) ==
  \A i \in 1..(Len(data) - 1) :
    data[i + 1].timestamp - data[i].timestamp = UnitsPerDay

(* C11: N consecutive daily samples resampled with a bucket length of b     *)
(* days yield ceil(N / b) buckets; 21 daily samples with a bucket length of *)
(* 7 days yield exactly 3 buckets.                                          *)
C11_DailyBucketCount ==
  (rsPc = "done" /\ IsConsecutiveDaily(dailyData)) =>
    /\ Len(weekly) = CeilDiv(Len(dailyData), weeklyResampleDays)
    /\ (Len(dailyData) = 21 /\ weeklyResampleDays = 7) => Len(weekly) = 3

(* 21 daily samples, 7-day buckets: three buckets, starting a week apart    *)
C11_Witness ==
  /\ rsPc = "done"
  /\ Len(dailyData) = 21
  /\ IsConsecutiveDaily(dailyData)
  /\ weeklyResampleDays = 7
  /\ Len(weekly) = 3
  /\ weekly[2].timestamp - weekly[1].timestamp = 7 * UnitsPerDay
  /\ weekly[3].close = dailyData[21].close

----------------------------------------------------------------------------
(* main *)

NonEmptySeqsUpTo(S, n) == UNION {[1..k -> S] : k \in 1..n}

(* getClosesGecko, line 198: candles at the cadence of the timeframe *)
Candles(closes, cadence, base) ==
  [i \in 1..Len(closes) |->
     [timestamp |-> base + (i - 1) * cadence, close |-> closes[i]]]

(* Date.now() *)
NowTs == 4 * UnitsPerDay

KeepsPointMutant(pA, pB) == pB > 0 /\ pA >= 0

(* line 358: if (pB > 0 && pA > 0) *)
KeepsPoint(pA, pB) == pB > 0 /\ pA > 0

(* lines 355-365: the loop from index i on; one record per pushed point *)
RECURSIVE AlignFrom(_, _, _, _)
AlignFrom(a, b, i, minLen) ==
  IF i > minLen THEN <<>>
  ELSE LET pA == a[i].close
           pB == b[i].close
           point == [ratio |-> <<pA, pB>>,
                     timestamp |-> a[i].timestamp,
                     row |-> [date |-> a[i].timestamp \div UnitsPerDay,
                              priceA |-> pA, priceB |-> pB,
                              ratio |-> <<pA, pB>>]]
       IN  (IF KeepsPoint(pA, pB) THEN <<point>> ELSE <<>>)
             \o AlignFrom(a, b, i + 1, minLen)

(* lines 350-365 *)
Align(a, b) == AlignFrom(a, b, 1, Min2(Len(a), Len(b)))

(* line 420 *)
LabelCount(len) == Min2(10, Max2(4, CeilDiv(len, 30)))

(* line 421 *)
LabelStride(len) == (len - 1) \div (LabelCount(len) - 1)

(* lines 423-427: the labelled sample indices (0-based) *)
LabelIdx(len) ==
  [i \in 1..LabelCount(len) |->
     IF i < LabelCount(len) THEN (i - 1) * LabelStride(len) ELSE len - 1]

(* lines 429-435: "YYYY-MM-DD HH:MM" or "YYYY-MM-DD" *)
LabelTextLen(iv) == IF iv = "hourly" THEN 16 ELSE 10

(* the mark left in the list of label offsets by a RangeError *)
RangeError == -1

NextPrevEndMutant(idx, textLen) == idx

(* line 446: prevEnd = idx + text.length *)
NextPrevEnd(idx, textLen) == idx + textLen

(* lines 439-447: the offset in xAxis of each label's first character, the  *)
(* string being lineLen long before label k is appended;                    *)
(* ' '.repeat(padding) raises RangeError for padding < 0                    *)
RECURSIVE XAxisStarts(_, _, _, _, _)
XAxisStarts(idxs, k, prevEnd, lineLen, textLen) ==
  IF k > Len(idxs) THEN <<>>
  ELSE LET padding == idxs[k] - prevEnd
       IN  IF padding < 0 THEN <<RangeError>>
           ELSE <<lineLen + padding>>
                  \o XAxisStarts(idxs, k + 1, NextPrevEnd(idxs[k], textLen),
                                 lineLen + padding + textLen, textLen)

XAxisOf(len, iv) == XAxisStarts(LabelIdx(len), 1, 0, 0, LabelTextLen(iv))

XAxisBuilds(len, iv) ==
  \A k \in 1..Len(XAxisOf(len, iv)) : XAxisOf(len, iv)[k] # RangeError

(* line 382: let precision = 6.  The ratios of the model are whole numbers  *)
(* of millionths, written below as integers or as fractions num / den.      *)
DefaultPrecision == 6
Micro == Pow10(DefaultPrecision)

(* line 408: height: 30 *)
ChartHeight == 30

(* line 359: pA / pB, in millionths (exact for the closes of the model) *)
RatioValue(r) == (r[1] * Micro) \div r[2]

SeqMin(s) == CHOOSE x \in {s[i] : i \in 1..Len(s)} :
               \A i \in 1..Len(s) : x <= s[i]

SeqMax(s) == SetMax({s[i] : i \in 1..Len(s)})

RECURSIVE Digits(_)
Digits(n) == IF n < 10 THEN 1 ELSE 1 + Digits(n \div 10)

RECURSIVE TrailingZeros(_)
TrailingZeros(n) == IF n % 10 # 0 THEN 0 ELSE 1 + TrailingZeros(n \div 10)

(* Math.round(a / b) for b > 0 *)
RoundDiv(a, b) == (2 * a + b) \div (2 * b)

(* lines 382-385; range in millionths *)
PrecisionOf(range) ==
  IF range < 100 THEN 12
  ELSE IF range < 1000 THEN 10
  ELSE IF range < 10000 THEN 8
  ELSE DefaultPrecision

(* lines 390-393: the length of value.toFixed(p) without its trailing zeros *)
(* and without a trailing '.', for the value num / den millionths >= 0      *)
FixedLabelLen(num, den, p) ==
  LET q == RoundDiv(num * Pow10(p - DefaultPrecision), den)
      frac == q % Pow10(p)
  IN  Digits(q \div Pow10(p))
        + (IF frac = 0 THEN 0 ELSE 1 + p - TrailingZeros(frac))

(* floor(log10(a / b)) for a / b > 0 *)
RECURSIVE Log10Floor(_, _)
Log10Floor(a, b) ==
  IF a >= 10 * b THEN 1 + Log10Floor(a, 10 * b)
  ELSE IF a < b THEN Log10Floor(10 * a, b) - 1
  ELSE 0

(* line 387: the length of value.toExponential(4), "d.dddde+x", for the     *)
(* value num / den millionths >= 0                                          *)
ExpLabelLen(num, den) ==
  8 + Digits(IF num = 0 THEN 0 ELSE Abs(Log10Floor(num, den * Micro)))

(* lines 381-394: the length of formatYRaw(value) *)
FormatYRawLen(num, den, range) ==
  IF range < 10 THEN ExpLabelLen(num, den)
  ELSE FixedLabelLen(num, den, PrecisionOf(range))

(* line 404: raw.padEnd(maxLabelLength, ' ') never shortens *)
PadEndLen(len, target) == Max2(len, target)

(* line 414: asciichart.plot calls format once per chart row, with the      *)
(* row's value max - k * range / rows, where rows is                        *)
(* |round(max * height / range) - round(min * height / range)|; for a flat  *)
(* series it draws a single row labelled round(min)                         *)
ChartRowValues(min, max) ==
  LET range == max - min
      chartRows == Abs(RoundDiv(max * ChartHeight, range)
                    - RoundDiv(min * ChartHeight, range))
  IN  IF range = 0 THEN << <<RoundDiv(min, Micro) * Micro, 1>> >>
      ELSE [k \in 1..(chartRows + 1) |-> <<max * chartRows - (k - 1) * range, chartRows>>]

(* lines 376-415: the y axis of the chart *)
YAxis(rt) ==
  LET vals == [k \in 1..Len(rt) |-> RatioValue(rt[k])]
      minRatio == SeqMin(vals)
      maxRatio == SeqMax(vals)
      range == maxRatio - minRatio
      testTicks == GenerateNiceTicks(minRatio, maxRatio, DefaultTickCount,
                                     -DefaultPrecision)
      rawLabels == [i \in 1..Len(testTicks) |->
                      FormatYRawLen(testTicks[i], 1, range)]
      maxLabelLength == SetMax({rawLabels[i] : i \in 1..Len(rawLabels)} \cup {1})
      rowValues == ChartRowValues(minRatio, maxRatio)
  IN  [ticksCalls |-> 1,
       maxLabelLength |-> maxLabelLength,
       yLabels |-> [k \in 1..Len(rowValues) |->
                      PadEndLen(FormatYRawLen(rowValues[k][1], rowValues[k][2],
                                              range),
                                maxLabelLength)]]

HasChartMutant(len) == len >= 1

(* line 375: if (ratios.length > 1) *)
HasChart(len) == len > 1

(* lines 417-449: the printed x-axis line: for each label the offset of its *)
(* first character in the line, its sample index and its length             *)
XLabels(len, iv, maxLabelLength) ==
  LET yTickWidth == maxLabelLength + 2
  IN  [k \in 1..Len(XAxisOf(len, iv)) |->
         [offset |-> yTickWidth + XAxisOf(len, iv)[k],
          idx |-> LabelIdx(len)[k],
          len |-> LabelTextLen(iv)]]

(* lines 372-464 for a non-empty series *)
RenderAndList(rt, iv, csv) ==
  LET tail == <<"listing", "current">> \o (IF csv THEN <<"csv">> ELSE <<>>)
  IN  IF ~HasChart(Len(rt))
      THEN [outcome |-> "resolved",
            output |-> <<"header", "placeholder">> \o tail,
            chart |-> NoChart]
      ELSE IF ~XAxisBuilds(Len(rt), iv)
      THEN [outcome |-> "rejected",
            output |-> <<"header", "chart", "fatal">>,
            chart |-> YAxis(rt) @@ [xLabels |-> <<>>]]
      ELSE [outcome |-> "resolved",
            output |-> <<"header", "chart", "xaxis">> \o tail,
            chart |-> YAxis(rt) @@
                        [xLabels |->
                           XLabels(Len(rt), iv, YAxis(rt).maxLabelLength)]]

(* without the check of line 367 the run goes on to line 457, where         *)
(* ratios[ratios.length - 1] is undefined and .toFixed raises               *)
RunOutputMutant(rt, iv, csv) ==
  IF Len(rt) = 0
  THEN [outcome |-> "rejected",
        output |-> <<"header", "placeholder", "listing", "fatal">>,
        chart |-> NoChart]
  ELSE RenderAndList(rt, iv, csv)

(* lines 367-464: what main does with the aligned series *)
RunOutput(rt, iv, csv) ==
  IF Len(rt) = 0
  THEN [outcome |-> "resolved", output |-> <<"error_no_ratio">>,
        chart |-> NoChart]
  ELSE RenderAndList(rt, iv, csv)

InitMain ==
  /\ IdleExtra
  /\ IdlePool
  /\ IdleXfer
  /\ IdleTicks
  /\ rsPc = "idle"
  /\ interval \in {"hourly", "daily", "weekly"}
  /\ weeklyResampleDays \in (IF interval = "weekly" THEN 1..MaxBucketDays
                              ELSE {1})  \* read by resampleToWeekly only
  /\ dailyData = <<>>
  /\ weekly = <<>>
  /\ mainPc = "start"
  /\ apiKeySet \in BOOLEAN
  /\ saveCsv \in BOOLEAN
  /\ dataA = <<>>
  /\ dataB = <<>>
  /\ aligned = FALSE
  /\ ratios = <<>>
  /\ timestamps = <<>>
  /\ rows = <<>>
  /\ output = <<>>
  /\ chart = NoChart
  /\ mainOutcome = "running"

(* lines 350-464: alignment and everything after it run without an await *)
Finish(a, b, printed) ==
  \E points \in {Align(a, b)} :
  \E rt \in {[k \in 1..Len(points) |-> points[k].ratio]} :
  \E run \in {RunOutput(rt, interval, saveCsv)} :
      /\ mainPc' = "done"
      /\ dataA' = a
      /\ dataB' = b
      /\ aligned' = TRUE
      /\ ratios' = rt
      /\ timestamps' = [k \in 1..Len(points) |-> points[k].timestamp]
      /\ rows' = [k \in 1..Len(points) |-> points[k].row]
      /\ output' = printed \o run.output
      /\ chart' = run.chart
      /\ mainOutcome' = run.outcome
      /\ UNCHANGED <<interval, apiKeySet, saveCsv>>

(* lines 309-316: one of the two getBestPoolWithHistory calls throws *)
PoolSelectionFails ==
  /\ mainPc = "start"
  /\ mainPc' = "done"
  /\ output' = <<"warn_pools", "fatal">>
  /\ mainOutcome' = "rejected"
  /\ UNCHANGED <<interval, apiKeySet, saveCsv, dataA, dataB, aligned, ratios,
                 timestamps, rows, chart>>
  /\ UNCHANGED <<poolVars, tickVars, resampleVars, xferVars, extraVars>>

(* lines 309-312: both pools are selected *)
PoolsSelected ==
  /\ mainPc = "start"
  /\ mainPc' = "pools"
  /\ UNCHANGED <<interval, apiKeySet, saveCsv, dataA, dataB, aligned, ratios,
                 timestamps, rows, output, chart, mainOutcome>>
  /\ UNCHANGED <<poolVars, tickVars, resampleVars, xferVars, extraVars>>

(* lines 320-332 and on: both history fetches succeed, with closes ca and   *)
(* cb; B's first candle is stamped `off` hours after A's                    *)
HistoryWith(ca, cb, off) ==
  LET cadence == IF interval = "hourly" THEN 1 ELSE UnitsPerDay
      rawA == Candles(ca, cadence, 0)
      rawB == Candles(cb, cadence, off)
  IN  IF interval = "weekly"
      THEN Finish(ResampleToWeekly(rawA, weeklyResampleDays),
                  ResampleToWeekly(rawB, weeklyResampleDays), <<>>)
      ELSE Finish(rawA, rawB, <<>>)

(* lines 320-332: both history fetches succeed *)
HistoryFetched ==
  /\ mainPc = "pools"
  /\ \E ca \in NonEmptySeqsUpTo(CandleCloses, MaxLen) :
     \E cb \in NonEmptySeqsUpTo(CandleCloses, MaxLen) :
     \E off \in {0, 1} :
       HistoryWith(ca, cb, off)
  /\ UNCHANGED <<poolVars, tickVars, resampleVars, xferVars, extraVars>>

(* lines 320-332: both history fetches succeed with n candles each; A's     *)
(* closes alternate between lo and hi, B's close is cb throughout           *)
HistoryFetchedLong ==
  /\ mainPc = "pools"
  /\ \E n \in 1..MaxRenderLen :
     \E lo \in RenderCloses : \E hi \in RenderCloses :
     \E cb \in RenderClosesB :
       HistoryWith([i \in 1..n |-> IF i % 2 = 1 THEN lo ELSE hi],
                   [i \in 1..n |-> cb], 0)
  /\ UNCHANGED <<poolVars, tickVars, resampleVars, xferVars, extraVars>>

(* lines 333-347: a history fetch throws and no API key is configured *)
HistoryFailsNoKey ==
  /\ mainPc = "pools"
  /\ ~apiKeySet
  /\ mainPc' = "done"
  /\ output' = <<"warn_history", "error_no_key">>
  /\ mainOutcome' = "resolved"
  /\ UNCHANGED <<interval, apiKeySet, saveCsv, dataA, dataB, aligned, ratios,
                 timestamps, rows, chart>>
  /\ UNCHANGED <<poolVars, tickVars, resampleVars, xferVars, extraVars>>

(* lines 333-339: a history fetch throws, and so does a DexTools call *)
FallbackFails ==
  /\ mainPc = "pools"
  /\ apiKeySet
  /\ mainPc' = "done"
  /\ output' = <<"warn_history", "fallback", "fatal">>
  /\ mainOutcome' = "rejected"
  /\ UNCHANGED <<interval, apiKeySet, saveCsv, dataA, dataB, aligned, ratios,
                 timestamps, rows, chart>>
  /\ UNCHANGED <<poolVars, tickVars, resampleVars, xferVars, extraVars>>

(* lines 333-342: a history fetch throws; single point from DexTools *)
FallbackPrices ==
  /\ mainPc = "pools"
  /\ apiKeySet
  /\ \E priceA \in PriceChoices : \E priceB \in PriceChoices :
       Finish(<<[timestamp |-> NowTs, close |-> priceA]>>,
              <<[timestamp |-> NowTs, close |-> priceB]>>,
              <<"warn_history", "fallback">>)
  /\ UNCHANGED <<poolVars, tickVars, resampleVars, xferVars, extraVars>>

NextMain ==
  \/ PoolSelectionFails
  \/ PoolsSelected
  \/ HistoryFetched
  \/ HistoryFailsNoKey
  \/ FallbackFails
  \/ FallbackPrices

SpecMain == InitMain /\ [][NextMain]_vars

(* runs of main whose history fetches return longer series *)
NextRender ==
  \/ PoolsSelected
  \/ HistoryFetchedLong

SpecRender == InitMain /\ [][NextRender]_vars

----------------------------------------------------------------------------
(* Claims about main (checked under SpecMain) *)

MinLen == Min2(Len(dataA), Len(dataB))

(* the indices (1-based) at which both closes are > 0 *)
ValidIdx == {i \in 1..MinLen : dataA[i].close > 0 /\ dataB[i].close > 0}

(* C8: alignment is positional.  The output holds, in increasing index      *)
(* order, exactly one point for each index below min(len A, len B) at which *)
(* both closes are > 0, with ratio A.close / B.close and A's timestamp;     *)
(* the other indices are skipped, and the output length is the minimum      *)
(* length minus the number of skipped indices.                              *)
C8_PositionalAlignment ==
  (mainPc = "done" /\ aligned) =>
    /\ Len(ratios) = Cardinality(ValidIdx)
    /\ Len(ratios) = MinLen - Cardinality((1..MinLen) \ ValidIdx)
    /\ Len(timestamps) = Len(ratios)
    /\ Len(rows) = Len(ratios)
    /\ \A i \in ValidIdx :
         LET k == Cardinality({j \in ValidIdx : j <= i})
         IN  /\ ratios[k] = <<dataA[i].close, dataB[i].close>>
             /\ timestamps[k] = dataA[i].timestamp
             /\ rows[k].priceA = dataA[i].close
             /\ rows[k].priceB = dataB[i].close

(* three-element series, B stamped differently from A, the middle index     *)
(* skipped for a zero close in B and the indices around it kept             *)
C8_Witness ==
  /\ mainPc = "done"
  /\ aligned
  /\ MinLen = 3
  /\ dataB[2].close = 0
  /\ dataA[2].close > 0
  /\ ValidIdx = {1, 3}
  /\ dataB[3].timestamp # dataA[3].timestamp
  /\ timestamps = <<dataA[1].timestamp, dataA[3].timestamp>>
  /\ ratios[2] = <<dataA[3].close, dataB[3].close>>
  /\ dataA[3].close # dataB[3].close

NoRatioPoint == mainPc = "done" /\ aligned /\ Len(ratios) = 0

InOutput(x) == \E k \in 1..Len(output) : output[k] = x

(* C9 as stated: when no index yields a valid ratio point, the failure      *)
(* reaches main's caller as an error (the promise rejects).                 *)
C9_Original == NoRatioPoint => mainOutcome = "rejected"

(* C9 as amended: when no index yields a valid ratio point, main prints the *)
(* error message and returns normally (no error reaches its caller); it     *)
(* prints no header, chart, placeholder, recent-ratio listing or current    *)
(* ratio and writes no CSV.                                                 *)
C9_EmptyResult ==
  NoRatioPoint =>
    /\ mainOutcome = "resolved"
    /\ InOutput("error_no_ratio")
    /\ output[Len(output)] = "error_no_ratio"
    /\ \A x \in {"header", "chart", "xaxis", "placeholder", "listing",
                  "current", "csv", "fatal"} : ~InOutput(x)

(* several candles per series, --csv given, and every index skipped *)
C9_Witness ==
  /\ NoRatioPoint
  /\ MinLen >= 2
  /\ saveCsv
  /\ \E i \in 1..MinLen : dataA[i].close > 0
  /\ output = <<"error_no_ratio">>

Charted == mainPc = "done" /\ aligned /\ Len(ratios) >= 1

(* C12: the renderer completes without raising an error for every ratio     *)
(* series of length >= 1 and every interval: the run resolves and goes on   *)
(* to the recent-ratio listing, and for a series of more than one point the *)
(* x-axis line is built and printed.                                        *)
C12_RendererCompletes ==
  Charted =>
    /\ mainOutcome = "resolved"
    /\ InOutput("listing")
    /\ (Len(ratios) > 1 => InOutput("xaxis"))

(* C14: all y-axis labels of one render have the same width, maxLabelLength *)
(* (the longest raw label among the nice ticks of the ratio range); no      *)
(* formatted value yields a longer label.                                   *)
C14_UniformLabelWidth ==
  (mainPc = "done" /\ chart.ticksCalls > 0) =>
    \A k \in 1..Len(chart.yLabels) : chart.yLabels[k] = chart.maxLabelLength

(* C15: a series of exactly one point renders only the placeholder notice:  *)
(* no chart, no y-axis label and no x-axis line are produced,               *)
(* generateNiceTicks is not called, and the run goes on to the listing.     *)
C15_SinglePointPlaceholder ==
  (mainPc = "done" /\ aligned /\ Len(ratios) = 1) =>
    /\ InOutput("placeholder")
    /\ ~InOutput("chart")
    /\ ~InOutput("xaxis")
    /\ chart.ticksCalls = 0
    /\ chart.yLabels = <<>>
    /\ chart.xLabels = <<>>
    /\ InOutput("listing")
    /\ mainOutcome = "resolved"

(* the single point of the DexTools fallback, and one left of a history of  *)
(* several candles, both end in the placeholder                             *)
C15_Witness ==
  /\ mainPc = "done"
  /\ aligned
  /\ Len(ratios) = 1
  /\ InOutput("placeholder")
  /\ chart = NoChart
  /\ \/ InOutput("fallback")
     \/ MinLen >= 2

GeckoFailed == InOutput("warn_pools") \/ InOutput("warn_history")

(* C16: whenever GeckoTerminal fails, at pool discovery or at the OHLCV     *)
(* fetch, and a DexTools key is configured, the run falls back to the       *)
(* current DexTools prices instead of aborting; the fallback fetch is never *)
(* performed when both history fetches succeed.                             *)
C16_FallbackOnGeckoFailure ==
  mainPc = "done" =>
    /\ (apiKeySet /\ GeckoFailed) => InOutput("fallback")
    /\ ~GeckoFailed => ~InOutput("fallback")

----------------------------------------------------------------------------
(* Claims about the x axis (checked under SpecRender) *)

(* C13: in a printed x-axis line every label's first character sits, after  *)
(* the gutter of maxLabelLength + 2 characters, at the offset equal to its  *)
(* sample index, and every label starts at or after the end of the label    *)
(* before it: the labels never overlap.                                     *)
C13_XLabelsAligned ==
  (mainPc = "done" /\ InOutput("xaxis")) =>
    /\ Len(chart.xLabels) = LabelCount(Len(ratios))
    /\ \A k \in 1..Len(chart.xLabels) :
         chart.xLabels[k].offset
           = chart.maxLabelLength + 2 + chart.xLabels[k].idx
    /\ \A k \in 2..Len(chart.xLabels) :
         /\ chart.xLabels[k].idx
              >= chart.xLabels[k - 1].idx + chart.xLabels[k - 1].len
         /\ chart.xLabels[k].offset
              >= chart.xLabels[k - 1].offset + chart.xLabels[k - 1].len

(* an hourly series of 49 points: four 16-character labels at the sample    *)
(* indices 0, 16, 32 and 48, each starting where the one before it ends     *)
C13_Witness ==
  /\ mainPc = "done"
  /\ InOutput("xaxis")
  /\ interval = "hourly"
  /\ Len(ratios) = 49
  /\ [k \in 1..Len(chart.xLabels) |-> chart.xLabels[k].idx] = <<0, 16, 32, 48>>
  /\ chart.xLabels[2].offset = chart.maxLabelLength + 2 + 16

----------------------------------------------------------------------------
(* getTokenTransferred: fetch-amount-of-token-transferred.js (Node) and     *)
(* for-google-apps/fetch-amount-of-token-transferred.gs (Apps Script)       *)

(* raw token balances, token decimals and block numbers the RPC may report *)
MaxBalance == 15
DecimalsChoices == {0, 2, 7, 8}
Blocks == {1, 2}

(* toFixed(7) in the Node version, slice(pointPos, pointPos + 7) in the     *)
(* Apps Script version                                                      *)
AmountDigits == 7

Ok(v) == [kind |-> "ok", value |-> v]

(* Node: the awaited call rejects.  Apps Script: the JSON answer has an     *)
(* error member or no result.                                               *)
Failed == [kind |-> "error", value |-> 0]

(* Node: getTransactionReceipt resolves to null *)
NotFound == [kind |-> "null", value |-> 0]

(* Apps Script: UrlFetchApp.fetch or JSON.parse raises *)
Raised == [kind |-> "raise", value |-> 0]

InitXfer ==
  /\ IdleExtra
  /\ IdlePool
  /\ IdleTicks
  /\ IdleResample
  /\ IdleMain
  /\ xfPc = "start"
  /\ xfReceipt = NoResponse
  /\ xfDecimals = NoResponse
  /\ xfBefore = NoResponse
  /\ xfAfter = NoResponse
  /\ xfResult = 0
  /\ xfThrew = FALSE

PositiveDeltaMutant(delta) == delta # 0

(* js line 27, gs line 171: if (delta <= 0) return 0 *)
PositiveDelta(delta) == delta > 0

(* js lines 31-32: parseFloat(Number(formatUnits(delta, decimals))          *)
(* .toFixed(7)), in units of 10^-7.  Number() takes the double nearest to   *)
(* the decimal string and toFixed rounds that double, so a value exactly    *)
(* halfway between two multiples of 10^-7 may come out either way.          *)
NodeAmount(delta, decimals) ==
  LET num == delta * Pow10(AmountDigits)
      den == Pow10(decimals)
      q == num \div den
      r == num % den
  IN  IF 2 * r < den THEN {q}
      ELSE IF 2 * r > den THEN {q + 1}
      ELSE {q, q + 1}

(* js lines 26-32 *)
NodeResults(before, after, decimals) ==
  IF PositiveDelta(after - before)
  THEN NodeAmount(after - before, decimals)
  ELSE {0}

(* js lines 7-11, and the catch of lines 33-36 *)
NodeReceipt ==
  /\ xfPc = "start"
  /\ \E r \in {Failed, NotFound} \cup {Ok(b) : b \in Blocks} :
       /\ xfReceipt' = r
       /\ xfPc' = IF r.kind = "ok" THEN "decimals" ELSE "done"
  /\ xfResult' = 0
  /\ UNCHANGED <<xfDecimals, xfBefore, xfAfter, xfThrew>>
  /\ UNCHANGED <<poolVars, tickVars, resampleVars, mainVars, extraVars>>

(* js lines 16-21, and the catch *)
NodeDecimals ==
  /\ xfPc = "decimals"
  /\ \E r \in {Failed} \cup {Ok(d) : d \in DecimalsChoices} :
       /\ xfDecimals' = r
       /\ xfPc' = IF r.kind = "ok" THEN "before" ELSE "done"
  /\ xfResult' = 0
  /\ UNCHANGED <<xfReceipt, xfBefore, xfAfter, xfThrew>>
  /\ UNCHANGED <<poolVars, tickVars, resampleVars, mainVars, extraVars>>

(* js line 23, and the catch *)
NodeBalanceBefore ==
  /\ xfPc = "before"
  /\ \E r \in {Failed} \cup {Ok(v) : v \in 0..MaxBalance} :
       /\ xfBefore' = r
       /\ xfPc' = IF r.kind = "ok" THEN "after" ELSE "done"
  /\ xfResult' = 0
  /\ UNCHANGED <<xfReceipt, xfDecimals, xfAfter, xfThrew>>
  /\ UNCHANGED <<poolVars, tickVars, resampleVars, mainVars, extraVars>>

(* js lines 24-32, and the catch *)
NodeBalanceAfter ==
  /\ xfPc = "after"
  /\ \E r \in {Failed} \cup {Ok(v) : v \in 0..MaxBalance} :
       /\ xfAfter' = r
       /\ xfResult' \in (IF r.kind = "ok"
                         THEN NodeResults(xfBefore.value, r.value,
                                          xfDecimals.value)
                         ELSE {0})
  /\ xfPc' = "done"
  /\ UNCHANGED <<xfReceipt, xfDecimals, xfBefore, xfThrew>>
  /\ UNCHANGED <<poolVars, tickVars, resampleVars, mainVars, extraVars>>

NextNodeTransfer ==
  \/ NodeReceipt
  \/ NodeDecimals
  \/ NodeBalanceBefore
  \/ NodeBalanceAfter

SpecNodeTransfer == InitXfer /\ [][NextNodeTransfer]_vars

(* gs lines 93 and 139: what a helper returns for its answer *)
GasValue(r) == IF r.kind = "ok" THEN r.value ELSE 0

DigitChar(d) == <<"0", "1", "2", "3", "4", "5", "6", "7", "8", "9">>[d + 1]

(* the decimal digits of n >= 0 *)
RECURSIVE DigitsOf(_)
DigitsOf(n) ==
  IF n < 10 THEN <<DigitChar(n)>>
  ELSE Append(DigitsOf(n \div 10), DigitChar(n % 10))

Zeros(k) == [i \in 1..k |-> "0"]

(* the number a string of decimal digits denotes *)
RECURSIVE ParseDigits(_)
ParseDigits(s) ==
  IF s = <<>> THEN 0
  ELSE 10 * ParseDigits(SubSeq(s, 1, Len(s) - 1))
         + (CHOOSE d \in 0..9 : DigitChar(d) = s[Len(s)])

(* s.slice(from, to), both counted from 0 and cut at the end of s *)
Slice(s, from, to) == SubSeq(s, from + 1, Min2(to, Len(s)))

(* s.padEnd(n, '0') *)
PadEndZeros(s, n) == IF Len(s) < n THEN s \o Zeros(n - Len(s)) ELSE s

(* padded.slice(0, pointPos) || '0' *)
OrZeroDigit(s) == IF s = <<>> THEN <<"0">> ELSE s

GasAmountMutant(delta, decimals) ==
  (2 * delta * Pow10(AmountDigits) + Pow10(decimals))
    \div (2 * Pow10(decimals))

(* gs lines 175-183: the digits of delta behind `decimals` zeros, the point *)
(* put `decimals` digits before the end, the fraction cut after 7 digits;   *)
(* parseFloat(integerPart + '.' + fracPart) in units of 10^-7               *)
GasAmount(delta, decimals) ==
  LET deltaStr == DigitsOf(delta)
      padded == Zeros(decimals) \o deltaStr
      pointPos == Len(padded) - decimals
      integerPart == OrZeroDigit(Slice(padded, 0, pointPos))
      fracPart == PadEndZeros(Slice(padded, pointPos, pointPos + AmountDigits),
                              AmountDigits)
  IN  ParseDigits(integerPart) * Pow10(AmountDigits) + ParseDigits(fracPart)

(* gs lines 169-183 *)
GasResult(before, after, decimals) ==
  IF PositiveDelta(after - before)
  THEN GasAmount(after - before, decimals)
  ELSE 0

GasResponses(V) == {Failed, Raised} \cup {Ok(v) : v \in V}

(* gs lines 144-184: the function is synchronous; rc, dc, bf and af are the *)
(* answers to its requests, a request after a raised error not being made   *)
GasGetTokenTransferred ==
  /\ xfPc = "start"
  /\ xfPc' = "done"
  /\ \E rc \in GasResponses(Blocks) :
     \E dc \in GasResponses(DecimalsChoices) :
     \E bf \in GasResponses(0..MaxBalance) :
     \E af \in GasResponses(0..MaxBalance) :
       LET gotReceipt == rc.kind = "ok"
           gotDecimals == gotReceipt /\ dc.kind # "raise"
           gotBefore == gotDecimals /\ bf.kind # "raise"
           gotAfter == gotBefore /\ af.kind # "raise"
       IN  /\ xfReceipt' = rc
           /\ xfDecimals' = IF gotReceipt THEN dc ELSE NoResponse
           /\ xfBefore' = IF gotDecimals THEN bf ELSE NoResponse
           /\ xfAfter' = IF gotBefore THEN af ELSE NoResponse
           /\ xfThrew' = (rc.kind = "raise" \/ (gotReceipt /\ ~gotAfter))
           /\ xfResult' = IF gotAfter
                          THEN GasResult(GasValue(bf), GasValue(af),
                                         GasValue(dc))
                          ELSE 0
  /\ UNCHANGED <<poolVars, tickVars, resampleVars, mainVars, extraVars>>

NextGasTransfer == GasGetTokenTransferred

SpecGasTransfer == InitXfer /\ [][NextGasTransfer]_vars

----------------------------------------------------------------------------
(* Claims about the Node getTokenTransferred (checked under                 *)
(* SpecNodeTransfer)                                                        *)

AnyRequestFailed ==
  \E r \in {xfReceipt, xfDecimals, xfBefore, xfAfter} :
    r.kind \in {"error", "null", "raise"}

XferDelta == xfAfter.value - xfBefore.value

(* C17: the Node getTokenTransferred never throws and never returns a       *)
(* negative number: it returns 0 when the receipt is not found, when an RPC *)
(* call raises, and when balance(block) - balance(block - 1) <= 0;          *)
(* otherwise it returns the positive delta divided by 10^decimals, rounded  *)
(* to 7 decimal places.                                                     *)
C17_NodeZeroOrRoundedDelta ==
  xfPc = "done" =>
    /\ ~xfThrew
    /\ xfResult >= 0
    /\ (AnyRequestFailed \/ XferDelta <= 0) => xfResult = 0
    /\ (~AnyRequestFailed /\ XferDelta > 0) =>
         2 * Abs(xfResult * Pow10(xfDecimals.value)
                   - XferDelta * Pow10(AmountDigits))
           <= Pow10(xfDecimals.value)

(* a delta of 5 raw units of a token with 8 decimals came back as           *)
(* 0.0000001: rounded, not cut                                              *)
C17_Witness ==
  /\ xfPc = "done"
  /\ ~AnyRequestFailed
  /\ xfDecimals.value = 8
  /\ xfBefore.value > 0
  /\ XferDelta = 5
  /\ xfResult = 1

----------------------------------------------------------------------------
(* Claims about the Apps Script getTokenTransferred (checked under          *)
(* SpecGasTransfer)                                                         *)

(* C18: the Apps Script getTokenTransferred returns 0 whenever one of its   *)
(* RPC requests (receipt, decimals, balance before, balance after) fails:   *)
(* a failed lookup never results in a non-zero amount.                      *)
C18_ZeroOnAnyFailure ==
  (xfPc = "done" /\ AnyRequestFailed) => (~xfThrew /\ xfResult = 0)

----------------------------------------------------------------------------
(* Claims about the probing loop of getBestPoolWithHistory *)

(* the positions in topPools whose probe succeeded, among those probed *)
ProbedOk == {k \in 1..Len(fetches) : fetches[k][2] > 0}

IsLiquidityOrder(s) ==
  \A i \in 1..(Len(s) - 1) : s[i].liquidity >= s[i + 1].liquidity

(* C19 (checked under SpecPool): the candidates are probed one after the    *)
(* other in liquidity order; a failing probe only drops that candidate and  *)
(* every later candidate is still probed; the entries the selection works   *)
(* on are exactly the successfully probed candidates, in the original       *)
(* liquidity order, and the selection rule is applied to them.              *)
C19_ProbingToleratesFailure ==
  selPc \in {"probing", "done"} =>
    /\ IsLiquidityOrder(topPools)
    /\ Len(fetches) <= Len(topPools)
    /\ \A k \in 1..Len(fetches) : fetches[k][1] = topPools[k].address
    /\ (selPc = "done" /\ selError \in {"none", "no_history"}) =>
         Len(fetches) = Len(topPools)
    /\ Len(poolHistories) = Cardinality(ProbedOk)
    /\ \A k \in ProbedOk :
         LET j == Cardinality({i \in ProbedOk : i <= k})
         IN  poolHistories[j] = [address |-> topPools[k].address,
                                 liquidity |-> topPools[k].liquidity,
                                 historyDays |-> fetches[k][2]]
    /\ Returned => selResult = SelectPool(poolHistories)
    /\ (selPc = "done" /\ selError = "no_history") => ProbedOk = {}

(* the first and most liquid candidate's probe failed, both later           *)
(* candidates were probed, and the selection returned the third             *)
C19_Witness ==
  /\ Returned
  /\ Len(fetches) = 3
  /\ fetches[1][2] = 0
  /\ ProbedOk = {2, 3}
  /\ topPools[1].liquidity > topPools[2].liquidity
  /\ selResult.address = topPools[3].address

(* C20 (checked under SpecPoolMany): the candidate list is cut to the 5     *)
(* most liquid pools before any history is fetched; at most 5 history       *)
(* fetches are made, one per candidate of the cut list and exactly one each *)
(* once the loop is through; a pool ranked below the top 5 is never probed  *)
(* and never returned.                                                      *)
C20_TruncatedBeforeProbing ==
  selPc \in {"probing", "done"} =>
    /\ IsLiquidityOrder(pools)
    /\ topPools = SubSeq(pools, 1, Min2(TopLimit, Len(pools)))
    /\ Len(fetches) <= TopLimit
    /\ Len(fetches) = (IF selPc = "probing" THEN probeIdx - 1
                       ELSE Len(topPools))
    /\ \A k \in 1..Len(fetches) : fetches[k][1] = pools[k].address
    /\ \A i \in (TopLimit + 1)..Len(pools) :
         /\ \A k \in 1..Len(fetches) : fetches[k][1] # pools[i].address
         /\ Returned => selResult.address # pools[i].address

(* seven pools, five probes, and the sixth pool, as liquid as the returned  *)
(* one and never probed, is left out                                        *)
C20_Witness ==
  /\ Returned
  /\ Len(pools) = 7
  /\ Len(fetches) = 5
  /\ pools[6].liquidity = selResult.liquidity
  /\ fetches[5][1] = pools[5].address
  /\ selResult.historyDays < SetMax(HistFew)

----------------------------------------------------------------------------
(* generateNiceTicks: the emission loop of lines 270-275 in double          *)
(* arithmetic.  min, max, step and val are offsets from a common base that  *)
(* is a multiple of every step, counted in units of which a step holds at   *)
(* least a hundred; lpUlp is the distance between neighbouring doubles      *)
(* around min and max in the same units (1: every sum below is exact).      *)

MaxSpan == 12

MaxLoopIter == 41

(* min and max are multiples of this many units *)
LoopGrain == 2 * ClampDivisor

LoopUlps == {1, 400, 2000}

LoopTickCounts == {5, DefaultTickCount}

(* the double nearest to x on the grid, ties to the even significand *)
RoundToDouble(x, ulp) ==
  LET q == x \div ulp
      r == x - q * ulp
  IN  IF 2 * r < ulp THEN q * ulp
      ELSE IF 2 * r > ulp THEN (q + 1) * ulp
      ELSE IF q % 2 = 0 THEN q * ulp ELSE (q + 1) * ulp

(* a + b of two doubles *)
FloatAdd(a, b, ulp) == RoundToDouble(a + b, ulp)

(* lines 267-268 *)
LoopStart(min, step, ulp) ==
  LET start == RoundToDouble((min \div step) * step, ulp)
  IN  IF start < min THEN FloatAdd(start, step, ulp) ELSE start

(* line 270: val <= max + step / 2 *)
LoopContinues(val, max, step, ulp) == val <= FloatAdd(max, step \div 2, ulp)

InitTickLoop ==
  /\ IdlePool
  /\ IdleTicks
  /\ IdleResample
  /\ IdleMain
  /\ IdleXfer
  /\ IdleFormat
  /\ IdlePair
  /\ lpPc = "start"
  /\ lpUlp \in LoopUlps
  /\ lpMin \in {0, LoopGrain}
  /\ \E k \in 0..MaxSpan : lpMax = lpMin + LoopGrain * k
  /\ lpCount \in LoopTickCounts
  /\ lpStep = 0
  /\ lpVal = 0
  /\ lpIter = 0

(* line 254: if (min === max) return [min] *)
ReturnSingle ==
  /\ lpPc = "start"
  /\ lpMin = lpMax
  /\ lpPc' = "done"
  /\ UNCHANGED <<lpUlp, lpMin, lpMax, lpCount, lpStep, lpVal, lpIter>>
  /\ UNCHANGED <<poolVars, tickVars, resampleVars, mainVars, xferVars>>
  /\ UNCHANGED <<formatVars, pairVars>>

(* lines 256-270: step, start, val = start *)
LoopEnter ==
  /\ lpPc = "start"
  /\ lpMin < lpMax
  /\ lpPc' = "loop"
  /\ lpStep' = NiceStep(lpMax - lpMin, lpCount)
  /\ lpVal' = LoopStart(lpMin, NiceStep(lpMax - lpMin, lpCount), lpUlp)
  /\ UNCHANGED <<lpUlp, lpMin, lpMax, lpCount, lpIter>>
  /\ UNCHANGED <<poolVars, tickVars, resampleVars, mainVars, xferVars>>
  /\ UNCHANGED <<formatVars, pairVars>>

(* lines 270-275: one pass of the body, then val += step.  The counter of   *)
(* passes stops counting at MaxLoopIter.                                    *)
LoopIterate ==
  /\ lpPc = "loop"
  /\ LoopContinues(lpVal, lpMax, lpStep, lpUlp)
  /\ lpVal' = FloatAdd(lpVal, lpStep, lpUlp)
  /\ lpIter' = Min2(lpIter + 1, MaxLoopIter)
  /\ UNCHANGED <<lpPc, lpUlp, lpMin, lpMax, lpCount, lpStep>>
  /\ UNCHANGED <<poolVars, tickVars, resampleVars, mainVars, xferVars>>
  /\ UNCHANGED <<formatVars, pairVars>>

(* line 270: the condition is false *)
LoopExit ==
  /\ lpPc = "loop"
  /\ ~LoopContinues(lpVal, lpMax, lpStep, lpUlp)
  /\ lpPc' = "done"
  /\ UNCHANGED <<lpUlp, lpMin, lpMax, lpCount, lpStep, lpVal, lpIter>>
  /\ UNCHANGED <<poolVars, tickVars, resampleVars, mainVars, xferVars>>
  /\ UNCHANGED <<formatVars, pairVars>>

NextTickLoop == ReturnSingle \/ LoopEnter \/ LoopIterate \/ LoopExit

(* the function runs to completion unless a step stays enabled for ever *)
SpecTickLoop == InitTickLoop /\ [][NextTickLoop]_vars /\ WF_vars(NextTickLoop)

(* C21: for every min < max the emission loop of generateNiceTicks stops,   *)
(* after at most tickCount * 4 passes                                       *)
C21_LoopTerminates == <>(lpPc = "done" /\ lpIter <= 4 * lpCount)

----------------------------------------------------------------------------
(* Claims about the de-duplication of generateNiceTicks (checked under      *)
(* SpecTicks)                                                               *)

(* the ticks pushed by the loop of lines 270-275 *)
GridTicks ==
  EmitTicks(StartOf(tkMin, NiceStep(tkMax - tkMin, tkCount)), tkMin, tkMax,
            NiceStep(tkMax - tkMin, tkCount))

(* C22: for every min < max the de-duplication keeps grid ticks that are a  *)
(* full step apart as separate ticks and the result has at least two ticks, *)
(* also for values far below 1                                              *)
C22_DedupKeepsGrid ==
  (TicksReturned /\ tkMin < tkMax) =>
    /\ Len(tkResult) >= 2
    /\ \A i, j \in 1..Len(GridTicks) :
         i < j =>
           \E a, b \in 1..Len(tkResult) :
             /\ a /= b
             /\ tkResult[a] = ToFixedNumber(GridTicks[i], unitExp)
             /\ tkResult[b] = ToFixedNumber(GridTicks[j], unitExp)

----------------------------------------------------------------------------
(* formatYRaw, lines 381-394, on decimal numbers m * 10^e with m >= 0; a    *)
(* string is a sequence of its characters.  Where the decimal digits cut    *)
(* off by a rounding are exactly one half, the double behind the decimal    *)
(* may lie on either side, and both roundings are possible.                 *)

ExpDigits == 4

MaxExp == 9

FormatExps == (-MaxExp)..(-1)

ValueMants == {0, 1, 12, 15, 120, 500, 105000, 999995}

RangeMants == {0, 1, 9, 10, 12, 99}

Decimals(M) == {[m |-> m, e |-> e] : m \in M, e \in FormatExps}

(* the integers nearest to m / q *)
NearestInts(m, q) ==
  LET n == m \div q
      r == m % q
  IN  IF 2 * r < q THEN {n}
      ELSE IF 2 * r > q THEN {n + 1}
      ELSE {n, n + 1}

(* v < 10^-k *)
Below(v, k) ==
  IF v.e + k >= 0 THEN v.m = 0 ELSE v.m < Pow10(-(v.e + k))

(* value.toFixed(p): the digits of the integer nearest to value * 10^p,     *)
(* at least p + 1 of them, with a point before the last p                   *)
WithPoint(d, p) ==
  LET padded == IF Len(d) < p + 1 THEN Zeros(p + 1 - Len(d)) \o d ELSE d
      k == Len(padded) - p
  IN  SubSeq(padded, 1, k) \o <<".">> \o SubSeq(padded, k + 1, Len(padded))

ToFixed(v, p) ==
  IF v.m = 0 THEN {WithPoint(<<"0">>, p)}
  ELSE IF v.e + p >= 0 THEN {WithPoint(DigitsOf(v.m) \o Zeros(v.e + p), p)}
  ELSE {WithPoint(DigitsOf(n), p) : n \in NearestInts(v.m, Pow10(-(v.e + p)))}

(* value.toExponential(f): "d.ddddde+x" or "d.ddddde-x" *)
ExpString(n, x, f) ==
  LET d == DigitsOf(n)
  IN  <<d[1], ".">> \o SubSeq(d, 2, f + 1)
        \o <<"e", IF x < 0 THEN "-" ELSE "+">> \o DigitsOf(Abs(x))

ToExponential(v, f) ==
  IF v.m = 0 THEN {<<"0", ".">> \o Zeros(f) \o <<"e", "+", "0">>}
  ELSE LET k == Digits(v.m)
       IN  IF k <= f + 1
           THEN {ExpString(v.m * Pow10(f + 1 - k), v.e + k - 1, f)}
           ELSE {IF n = Pow10(f + 1)
                 THEN ExpString(Pow10(f), v.e + k, f)
                 ELSE ExpString(n, v.e + k - 1, f)
                 : n \in NearestInts(v.m, Pow10(k - f - 1))}

(* formatted.replace(/0+$/, '') *)
RECURSIVE StripZeros(_)
StripZeros(s) ==
  IF s /= <<>> /\ s[Len(s)] = "0" THEN StripZeros(SubSeq(s, 1, Len(s) - 1))
  ELSE s

(* if (formatted.endsWith('.')) formatted = formatted.slice(0, -1) *)
StripPoint(s) ==
  IF s /= <<>> /\ s[Len(s)] = "." THEN SubSeq(s, 1, Len(s) - 1) ELSE s

(* formatted || '0' *)
OrZero(s) == IF s = <<>> THEN <<"0">> ELSE s

(* lines 382-385, with the number the thresholds are applied to *)
FormatPrecision(sel) ==
  IF Below(sel, 4) THEN 12
  ELSE IF Below(sel, 3) THEN 10
  ELSE IF Below(sel, 2) THEN 8
  ELSE DefaultPrecision

(* lines 382-393 *)
FormatWith(value, sel) ==
  IF Below(sel, 5) THEN ToExponential(value, ExpDigits)
  ELSE {OrZero(StripPoint(StripZeros(formatted))) :
          formatted \in ToFixed(value, FormatPrecision(sel))}

FormatYRawMutant(value, range) == FormatWith(value, value)

(* lines 381-394: the thresholds are applied to the captured range *)
FormatYRaw(value, range) == FormatWith(value, range)

InitFormat ==
  /\ IdlePool
  /\ IdleTicks
  /\ IdleResample
  /\ IdleMain
  /\ IdleXfer
  /\ IdleLoop
  /\ IdlePair
  /\ fmPc = "start"
  /\ fmRange \in Decimals(RangeMants)
  /\ fmValue \in Decimals(ValueMants)
  /\ fmLabel = <<>>

CallFormatYRaw ==
  /\ fmPc = "start"
  /\ fmPc' = "done"
  /\ fmLabel' \in FormatYRaw(fmValue, fmRange)
  /\ UNCHANGED <<fmRange, fmValue>>
  /\ UNCHANGED <<poolVars, tickVars, resampleVars, mainVars, xferVars>>
  /\ UNCHANGED <<loopVars, pairVars>>

NextFormat == CallFormatYRaw

SpecFormat == InitFormat /\ [][NextFormat]_vars

----------------------------------------------------------------------------
(* Claims about formatYRaw (checked under SpecFormat) *)

IndexOf(s, c) == CHOOSE i \in 1..(Len(s) + 1) :
                   /\ i = Len(s) + 1 \/ s[i] = c
                   /\ \A j \in 1..(i - 1) : s[j] /= c

Has(s, c) == IndexOf(s, c) <= Len(s)

DigitChars == {DigitChar(d) : d \in 0..9}

(* "d.dddde+x" or "d.dddde-x" with exactly four digits after the point *)
IsScientific(s) ==
  /\ Len(s) >= ExpDigits + 5
  /\ s[1] \in DigitChars
  /\ s[2] = "."
  /\ \A i \in 3..(ExpDigits + 2) : s[i] \in DigitChars
  /\ s[ExpDigits + 3] = "e"
  /\ s[ExpDigits + 4] \in {"+", "-"}
  /\ \A i \in (ExpDigits + 5)..Len(s) : s[i] \in DigitChars

(* the places the claim gives for a range that is not below 0.00001 *)
PlacesFor(range) ==
  IF Below(range, 4) THEN 12
  ELSE IF Below(range, 3) THEN 10
  ELSE IF Below(range, 2) THEN 8
  ELSE 6

(* digits after the point of a fixed-notation string *)
FractionLen(s) == IF Has(s, ".") THEN Len(s) - IndexOf(s, ".") ELSE 0

(* the string with its fraction filled up with zeros to p places *)
Refill(s, p) ==
  (IF Has(s, ".") THEN s ELSE Append(s, ".")) \o Zeros(p - FractionLen(s))

(* s is value rounded to p places, with trailing zeros and a bare trailing  *)
(* point removed                                                            *)
IsStrippedFixed(s, value, p) ==
  /\ s /= <<>>
  /\ \A i \in 1..Len(s) : s[i] \in DigitChars \cup {"."}
  /\ s[Len(s)] /= "."
  /\ Has(s, ".") => s[Len(s)] /= "0"
  /\ FractionLen(s) <= p
  /\ Refill(s, p) \in ToFixed(value, p)

----------------------------------------------------------------------------
(* Claims about the x-axis label positions, lines 417-427 (checked under    *)
(* SpecMain)                                                                *)

(* C24: for every series of two or more points the x-axis labels number     *)
(* clamp(ceil(len / 30), 4, 10) and sit at 0, s, 2s, ..., (count - 2) * s   *)
(* and len - 1 with s = floor((len - 1) / (count - 1)); the indices lie in  *)
(* [0, len - 1], are pairwise distinct and strictly increasing              *)
C24_LabelIndices ==
  (mainPc = "done" /\ InOutput("chart")) =>
    LET len == Len(ratios)
        idx == LabelIdx(len)
        count == Min2(10, Max2(4, CeilDiv(len, 30)))
        s == (len - 1) \div (count - 1)
    IN  /\ len >= 2
        /\ Len(idx) = count
        /\ \A k \in 1..(count - 1) : idx[k] = (k - 1) * s
        /\ idx[count] = len - 1
        /\ \A k \in 1..count : idx[k] \in 0..(len - 1)
        /\ \A k \in 2..count : idx[k - 1] < idx[k]

----------------------------------------------------------------------------
(* Claims about the Apps Script amount (checked under SpecGasTransfer) *)

AllRequestsAnswered ==
  \A r \in {xfReceipt, xfDecimals, xfBefore, xfAfter} : r.kind = "ok"

(* C25: when every request succeeds and the raw delta D is positive, the    *)
(* Apps Script getTokenTransferred returns floor(D * 10^7 / 10^d) / 10^7    *)
(* for a token of d decimals: cut after seven fraction digits, not rounded  *)
C25_GasTruncatedAmount ==
  (xfPc = "done" /\ AllRequestsAnswered /\ XferDelta >= 1) =>
    /\ ~xfThrew
    /\ LET scaled == XferDelta * Pow10(AmountDigits)
           unit == Pow10(xfDecimals.value)
       IN  /\ xfResult * unit <= scaled
           /\ scaled < (xfResult + 1) * unit

(* 15 raw units of a token with 8 decimals: 0.00000015 comes back as        *)
(* 0.0000001                                                                *)
C25_Witness ==
  /\ xfPc = "done"
  /\ AllRequestsAnswered
  /\ xfDecimals.value = 8
  /\ XferDelta = 15
  /\ xfResult = 1

----------------------------------------------------------------------------
(* main, lines 309-316: the selections for token A and token B.  Each call  *)
(* of getBestPoolWithHistory has its own url, pools, topPools and           *)
(* poolHistories (pool-selector.js lines 32-45); the module has no          *)
(* top-level binding.  The steps of the two calls are taken in any order:   *)
(* one call after the other, as main awaits them, or interleaved.           *)

MaxPairPools == 2

(* the pool addresses of the two tokens are different *)
AddressOf(t, i) == IF t = "A" THEN i ELSE MaxPairPools + i

OtherToken(t) == IF t = "A" THEN "B" ELSE "A"

HistoriesOfCallMutant(c, t) ==
  c[OtherToken(t)].poolHistories \o c[t].poolHistories

(* line 45: const poolHistories = [] is a local of the call *)
HistoriesOfCall(c, t) == c[t].poolHistories

InitPair ==
  /\ IdlePool
  /\ IdleTicks
  /\ IdleResample
  /\ IdleMain
  /\ IdleXfer
  /\ IdleLoop
  /\ IdleFormat
  /\ calls = [t \in Tokens |-> [NoCall EXCEPT !.pc = "start"]]

(* line 34 of the call for token t *)
PairDiscoverFails(t) ==
  /\ calls[t].pc = "start"
  /\ calls' = [calls EXCEPT ![t].pc = "done",
                            ![t].error = "discovery_failed"]
  /\ UNCHANGED <<poolVars, tickVars, resampleVars, mainVars, xferVars>>
  /\ UNCHANGED <<loopVars, formatVars>>

(* lines 35-43 of the call for token t *)
PairDiscover(t) ==
  /\ calls[t].pc = "start"
  /\ \E n \in 0..MaxPairPools : \E liq \in [1..n -> LiqFew] :
       LET data == [i \in 1..n |->
                      [address |-> AddressOf(t, i), liquidity |-> liq[i]]]
           sorted == SortByLiquidityDesc(data)
       IN  calls' = [calls EXCEPT ![t] =
                       IF n = 0
                       THEN [@ EXCEPT !.pc = "done", !.error = "no_pools"]
                       ELSE [@ EXCEPT !.pc = "probing",
                                      !.topPools = SliceTop(sorted),
                                      !.probeIdx = 1]]
  /\ UNCHANGED <<poolVars, tickVars, resampleVars, mainVars, xferVars>>
  /\ UNCHANGED <<loopVars, formatVars>>

(* lines 46-93 of the call for token t: one getClosesGecko answer *)
PairProbe(t) ==
  /\ calls[t].pc = "probing"
  /\ \E h \in HistFew :
       LET pool == calls[t].topPools[calls[t].probeIdx]
           entry == [address |-> pool.address, liquidity |-> pool.liquidity,
                     historyDays |-> h]
           ph == AfterProbe(HistoriesOfCall(calls, t), entry)
           last == calls[t].probeIdx = Len(calls[t].topPools)
       IN  calls' = [calls EXCEPT ![t] =
                       [@ EXCEPT !.poolHistories = ph,
                                 !.fetches = Append(@, entry),
                                 !.probeIdx = @ + 1,
                                 !.pc = IF last THEN "done" ELSE @,
                                 !.result = IF last
                                            THEN SelectionOutcome(ph).result
                                            ELSE @,
                                 !.error = IF last
                                           THEN SelectionOutcome(ph).error
                                           ELSE @]]
  /\ UNCHANGED <<poolVars, tickVars, resampleVars, mainVars, xferVars>>
  /\ UNCHANGED <<loopVars, formatVars>>

NextPair ==
  \E t \in Tokens : PairDiscoverFails(t) \/ PairDiscover(t) \/ PairProbe(t)

SpecPair == InitPair /\ [][NextPair]_vars

----------------------------------------------------------------------------
(* Claims about the two selections (checked under SpecPair) *)

(* the entries a call got from its own successful probes, in probe order *)
OwnProbed(t) == SelectSeq(calls[t].fetches, LAMBDA f : f.historyDays > 0)

(* C26: the selections for the two tokens are independent: whatever the     *)
(* order of their fetches, a call keeps only entries of its own candidates  *)
(* and its result is the selection among its own successful probes; the     *)
(* other call, finished or under way, changes nothing of it                 *)
C26_SelectionsIndependent ==
  \A t \in Tokens :
    /\ calls[t].poolHistories = OwnProbed(t)
    /\ \A i \in 1..Len(calls[t].fetches) :
         calls[t].fetches[i].address = calls[t].topPools[i].address
    /\ calls[t].pc = "done" =>
         /\ calls[t].error = "none" =>
              /\ OwnProbed(t) /= <<>>
              /\ calls[t].result = SelectPool(OwnProbed(t))
         /\ calls[t].error = "no_history" =>
              /\ calls[t].topPools /= <<>>
              /\ OwnProbed(t) = <<>>

(* the call for A finished while the call for B was between its two probes: *)
(* A switched to its deeper pool, B holds only its own first entry          *)
C26_Witness ==
  /\ calls["A"].pc = "done"
  /\ calls["A"].result = [address |-> 2, liquidity |-> 20, historyDays |-> 3]
  /\ calls["A"].poolHistories[1].historyDays = 1
  /\ calls["B"].pc = "probing"
  /\ calls["B"].probeIdx = 2
  /\ calls["B"].poolHistories
       = <<[address |-> 3, liquidity |-> 20, historyDays |-> 3]>>

----------------------------------------------------------------------------
(* Invariants of the returned pool (checked under SpecPool) *)

(* C27: a returned pool is one of the at most five truncated candidates     *)
(* whose history fetch succeeded, has a history of at least one candle and  *)
(* at least a tenth of the liquidity of the most liquid probed candidate;   *)
(* when it is not that candidate, its history is the deepest found and more *)
(* than twice as deep as that candidate's                                   *)
C27_ReturnedPoolBounds ==
  Returned =>
    LET top == poolHistories[1]
    IN  /\ Len(topPools) <= TopLimit
        /\ \E i \in 1..Len(topPools) :
             /\ topPools[i].address = selResult.address
             /\ topPools[i].liquidity = selResult.liquidity
             /\ fetches[i] = <<selResult.address, selResult.historyDays>>
        /\ selResult.historyDays >= 1
        /\ \A i \in 1..Len(fetches) :
             fetches[i][2] >= 1 => topPools[i].liquidity <= top.liquidity
        /\ 10 * selResult.liquidity >= top.liquidity
        /\ selResult.address /= top.address =>
             /\ \A i \in 1..Len(fetches) :
                  fetches[i][2] <= selResult.historyDays
             /\ selResult.historyDays > 2 * top.historyDays

(* the most liquid candidate's fetch failed; of the probed ones the second, *)
(* with exactly a tenth of the first's liquidity and three candles against  *)
(* one, is returned                                                         *)
C27_Witness ==
  /\ Returned
  /\ Len(fetches) = 3
  /\ fetches[1][2] = 0
  /\ Len(poolHistories) = 2
  /\ poolHistories[1].liquidity = 100
  /\ poolHistories[1].historyDays = 1
  /\ selResult = poolHistories[2]
  /\ selResult.liquidity = 10
  /\ selResult.historyDays = 3

----------------------------------------------------------------------------
(* Invariants of resampleToWeekly (checked under SpecResample) *)

IsChronological(data) ==
  \A i \in 1..(Len(data) - 1) : data[i].timestamp <= data[i + 1].timestamp

ResampledInOrder ==
  (rsPc = "done" /\ IsChronological(dailyData)) =>
    /\ weekly = <<>> <=> dailyData = <<>>
    /\ Len(weekly) <= Len(dailyData)
    /\ \A k \in 1..Len(weekly) :
         \E j \in 1..Len(dailyData) :
           weekly[k].timestamp = dailyData[j].timestamp
    /\ \A k \in 2..Len(weekly) :
         /\ weekly[k - 1].timestamp < weekly[k].timestamp
         /\ weekly[k].timestamp - weekly[k - 1].timestamp
              >= weeklyResampleDays * UnitsPerDay
    /\ dailyData /= <<>> =>
         /\ weekly[1].timestamp = dailyData[1].timestamp
         /\ weekly[Len(weekly)].close = dailyData[Len(dailyData)].close

(* C28: for chronologically ascending input the output is empty exactly     *)
(* when the input is, has no more buckets than the input has samples,       *)
(* carries timestamps of input samples in strictly ascending order starting *)
(* with the first sample's, consecutive ones at least bucketDays days       *)
(* apart, and the last bucket closes with the last sample's close; the      *)
(* call leaves the input as it was                                          *)
C28_ResampleInvariants ==
  []ResampledInOrder /\ [][dailyData' = dailyData]_vars

(* four samples in order, two of them with the same timestamp, give two     *)
(* buckets; the second closes with the last sample's close, not the one     *)
(* before it                                                                *)
C28_Witness ==
  /\ rsPc = "done"
  /\ Len(dailyData) = 4
  /\ IsChronological(dailyData)
  /\ dailyData[1].timestamp = dailyData[2].timestamp
  /\ Len(weekly) = 2
  /\ weekly[2].timestamp = dailyData[3].timestamp
  /\ dailyData[3].close /= dailyData[4].close
  /\ weekly[2].close = dailyData[4].close

============================================================================
